---- MODULE Spec2Model ----
(***************************************************************************)
(* InteractiveDataLabeler of atom_calibration: one labeler instance, its   *)
(* lock, its frame, labels, marker and depth seed, and the callbacks that  *)
(* rospy runs on it from separate threads.                                 *)
(*                                                                         *)
(* Numbers.  Lengths are integers: ranges are in millimetres, cartesian    *)
(* coordinates and marker positions in 1/Den millimetres, where Den is the *)
(* least common multiple of the possible cluster sizes, so that a centroid *)
(* (a sum divided by a cluster size) is exact.  The code compares square   *)
(* roots of sums of squares; the model compares the sums of squares, which *)
(* orders the same pairs the same way.  min_dist therefore holds a squared *)
(* distance.                                                               *)
(*                                                                         *)
(* sys.maxint (line 312) is given the value it has where the attribute     *)
(* exists (the largest machine integer): it is above every distance of the *)
(* model, which is all the code uses it for.                               *)
(***************************************************************************)
EXTENDS Integers, Sequences, FiniteSets, TLC

VARIABLES
    construction,   \* how __init__ ended: "returned", or the exception that ended it
    descriptor,     \* self.name, self.parent and self.topic
    angle_increment, \* msg.angle_increment of the scans of the sensor, in 1/10 degree
    received_first_msg, \* self.received_first_msg
    modality,       \* self.modality
    label_data,     \* self.label_data
    pattern_type,   \* calib_pattern['pattern_type']
    width,          \* self.pinhole_camera_model.fullResolution()[0] (depth)
    height,         \* self.pinhole_camera_model.fullResolution()[1] (depth)
    lock,           \* self.lock: 0 when free, else the thread holding it
    pc,             \* position of each frame-arrival thread in sensorDataReceivedCallback
    arg,            \* the msg argument of each thread's current call
    msg,            \* self.msg
    labels,         \* self.labels
    published,      \* the clusters of the last cloud sent on self.publisher_clusters
    stamp_out,      \* header.stamp of the last message sent on a publisher (a frame id)
    marker,         \* self.marker.pose.position
    seed,           \* self.seed (depth)
    clusters,       \* labelData local, per thread: clusters
    idx_closest_cluster, \* labelData local, per thread
    min_dist,       \* labelData local, per thread (squared, see above)
    seedRead,       \* labelDepthMsg: the seed coordinates it has read, per thread
    new_seed_point, \* labelData local, per thread (depth)
    cpc,            \* position of the mouse-click thread in mouseClickReceivedCallback
    cmsg,           \* the msg argument of the mouse-click thread's current call
    nframes,        \* number of frames delivered so far
    nclicks,        \* number of mouse clicks delivered so far
    labelsOf,       \* history: id of the frame each field of labels was computed from
    xys,            \* labelData locals xs, ys, per thread: the frame they were computed from
    seedStart,      \* history: per thread, the seed when its pass acquired the lock
    seedW,          \* history: which write event last wrote seed.x and seed.y
    rdW,            \* history: per thread, the write events of the coordinates it read
    pending,        \* history: the last delivered mouse-click seed no pass has started from
    seed0,          \* history: the marker position the last lidar2d or lidar3d pass read
    repeat,         \* history: the last lidar2d pass had the scan and seed of the one before
    prevIdxs,       \* history: labels.idxs of the pass before, when repeat
    dragged,        \* history: the user moved the marker after the labeler last wrote it
    other,          \* the labeler of another sensor, when there is one: its fields
    gated,          \* history: how many points the spatial gate of the last lidar3d pass held
    result,         \* labelData local, per thread (rgb): what self.pattern.detect returned
    images,         \* history, per thread: the stamps of the annotated images its call published
    calls,          \* history: how many calls took the lock, how many called labelData
    applied         \* history: self.lock as each server.applyChanges() of markerFeedback found it

vars == <<construction, descriptor, angle_increment, received_first_msg, modality, label_data, pattern_type, width, height,
          lock, pc, arg, msg, labels, published, stamp_out, marker, seed, clusters,
          idx_closest_cluster, min_dist, seedRead, new_seed_point, cpc, cmsg,
          nframes, nclicks, labelsOf, xys, seedStart, seedW, rdW,
          pending, seed0, repeat, prevIdxs, dragged, other, gated, result, images, calls, applied>>

-----------------------------------------------------------------------------
(* Bounds *)

NumThreads == 2
MaxFrames == 2
MaxClicks == 1
MaxLen == 3
MaxSide == 3
MaxScan == 4
MaxFeedbacks == 1

Threads == 1..NumThreads

-----------------------------------------------------------------------------
(* lidar2d: constants and geometry *)

\* self.threshold = 0.2 (metres), here in millimetres
threshold == 200
\* self.minimum_range_value = 0.3 (metres), here in millimetres
minimum_range_value == 300
\* percentage_points_to_remove = 0.0, here in 1/100
percentage_points_to_remove == 0
sys_maxint == 2147483647

RECURSIVE Gcd(_, _)
Gcd(a, b) == IF b = 0 THEN a ELSE Gcd(b, a % b)

RECURSIVE LcmUpTo(_)
LcmUpTo(n) == IF n <= 1 THEN 1 ELSE LET l == LcmUpTo(n - 1) IN (l * n) \div Gcd(l, n)

\* coordinates are kept in 1/Den millimetres
Den == LcmUpTo(MaxLen)

\* the angle_increment of the scanners, in 1/10 degree: atan(9/40), about 12.7
\* degrees, and 1 degree
CoarseIncrement == 127
FineIncrement == 10

\* cos and sin (in 1/1000) of angle_min + idx * angle_increment for a scan with
\* angle_min = 0 and angle_increment = atan(9/40), about 12.7 degrees
CosTab == <<1000, 976, 904, 788, 633, 448, 241>>
SinTab == <<0, 220, 428, 616, 774, 894, 971>>

\* the same for angle_increment = 1 degree
FineCosTab == <<1000, 1000, 999, 999, 998, 996, 995>>
FineSinTab == <<0, 17, 35, 52, 70, 87, 105>>

Cos(idx) == IF angle_increment = FineIncrement THEN FineCosTab[idx + 1] ELSE CosTab[idx + 1]
Sin(idx) == IF angle_increment = FineIncrement THEN FineSinTab[idx + 1] ELSE SinTab[idx + 1]

\* Python list indexing ranges[idx]: idx counts from 0 and a negative idx counts
\* from the end of the list
RangeAt(ranges, idx) == ranges[(IF idx < 0 THEN idx + Len(ranges) ELSE idx) + 1]

\* atom_core.utilities.laser_scan_msg_to_xy: x = r cos(theta), y = r sin(theta)
XAt(ranges, idx) == Den * ((RangeAt(ranges, idx) * Cos(idx)) \div 1000)
YAt(ranges, idx) == Den * ((RangeAt(ranges, idx) * Sin(idx)) \div 1000)

\* (x1 - x2) ** 2 + (y1 - y2) ** 2, the square of the distance the code computes
Dist2(x1, y1, x2, y2) == (x1 - x2) * (x1 - x2) + (y1 - y2) * (y1 - y2)

Threshold2 == (threshold * Den) * (threshold * Den)

LaserScanCluster(cluster_count, idx) == [cluster_count |-> cluster_count, idxs |-> <<idx>>]

pushIdx(cluster, idx) == [cluster EXCEPT !.idxs = Append(@, idx)]

Last(s) == s[Len(s)]

SkipPointInclusive(ranges, idx) ==
    \/ RangeAt(ranges, idx) <= minimum_range_value
    \/ RangeAt(ranges, idx - 1) <= minimum_range_value

SkipPointOwnRange(ranges, idx) == RangeAt(ranges, idx) < minimum_range_value

\* the skip test of the clustering loop
SkipPoint(ranges, idx) ==
    \/ RangeAt(ranges, idx) < minimum_range_value
    \/ RangeAt(ranges, idx - 1) < minimum_range_value

SplitsClusterAtThreshold(ranges, idx, last) ==
    Dist2(XAt(ranges, idx), YAt(ranges, idx), XAt(ranges, last), YAt(ranges, last)) >= Threshold2

\* a point further than the threshold from the last point of the last cluster
\* starts a new cluster
SplitsCluster(ranges, idx, last) ==
    Dist2(XAt(ranges, idx), YAt(ranges, idx), XAt(ranges, last), YAt(ranges, last)) > Threshold2

RECURSIVE ClusterLoop(_, _, _, _, _)
ClusterLoop(ranges, idx, cl, cluster_counter, first_iteration) ==
    IF idx >= Len(ranges) THEN cl
    ELSE IF SkipPoint(ranges, idx)
         THEN ClusterLoop(ranges, idx + 1, cl, cluster_counter, first_iteration)
    ELSE IF first_iteration
         THEN ClusterLoop(ranges, idx + 1, Append(cl, LaserScanCluster(cluster_counter, idx)),
                          cluster_counter, FALSE)
    ELSE IF SplitsCluster(ranges, idx, Last(Last(cl).idxs))
         THEN ClusterLoop(ranges, idx + 1,
                          Append(cl, LaserScanCluster(cluster_counter + 1, idx)),
                          cluster_counter + 1, FALSE)
    ELSE ClusterLoop(ranges, idx + 1,
                     [cl EXCEPT ![Len(cl)] = pushIdx(@, idx)], cluster_counter, FALSE)

\* clusters = [] before the loop
ClustersInit == <<>>

Clustering(ranges) == ClusterLoop(ranges, 0, ClustersInit, 0, TRUE)

\* the points of all clusters in the order of the two nested association loops
RECURSIVE ClusterPoints(_, _)
ClusterPoints(cl, c) ==
    IF c > Len(cl) THEN <<>>
    ELSE [k \in 1..Len(cl[c].idxs) |-> [cluster_idx |-> c - 1, idx |-> cl[c].idxs[k]]]
         \o ClusterPoints(cl, c + 1)

CloserOrEqual(dist, mind) == dist <= mind

\* dist < min_dist
Closer(dist, mind) == dist < mind

RECURSIVE AssociationLoop(_, _, _, _, _)
AssociationLoop(pts, k, ranges, m, best) ==
    IF k > Len(pts) THEN best
    ELSE LET dist == Dist2(m.x, m.y, XAt(ranges, pts[k].idx), YAt(ranges, pts[k].idx))
         IN  AssociationLoop(pts, k + 1, ranges, m,
                 IF Closer(dist, best.min_dist)
                 THEN [idx_closest_cluster |-> pts[k].cluster_idx, min_dist |-> dist]
                 ELSE best)

MinDistStale(t) == min_dist[t]

\* min_dist = sys.maxint before the association loops
MinDistInit(t) == sys_maxint

Association(t, cl, ranges, m) ==
    AssociationLoop(ClusterPoints(cl, 1), 1, ranges, m,
                    [idx_closest_cluster |-> 0, min_dist |-> MinDistInit(t)])

RECURSIVE SumX(_, _, _)
SumX(ranges, idxs, k) ==
    IF k > Len(idxs) THEN 0 ELSE XAt(ranges, idxs[k]) + SumX(ranges, idxs, k + 1)

RECURSIVE SumY(_, _, _)
SumY(ranges, idxs, k) ==
    IF k > Len(idxs) THEN 0 ELSE YAt(ranges, idxs[k]) + SumY(ranges, idxs, k + 1)

CentroidOfFirstPoint(ranges, idxs) ==
    [x |-> XAt(ranges, idxs[1]), y |-> YAt(ranges, idxs[1]), z |-> 0]

\* the middle point of the closest cluster, where the marker is brought
Centroid(ranges, idxs) ==
    [x |-> SumX(ranges, idxs, 1) \div Len(idxs),
     y |-> SumY(ranges, idxs, 1) \div Len(idxs),
     z |-> 0]

IdxsTrimmed(idxs) == SubSeq(idxs, 2, Len(idxs) - 1)

\* idxs[idxs_to_remove:number_of_idxs - idxs_to_remove]
IdxsFiltered(idxs) ==
    LET number_of_idxs == Len(idxs)
        idxs_to_remove == (percentage_points_to_remove * number_of_idxs) \div 100
    IN  SubSeq(idxs, idxs_to_remove + 1, number_of_idxs - idxs_to_remove)

-----------------------------------------------------------------------------
(* depth: constants and the validity gate *)

\* the resolution in the camera_info of the depth sensor
Width == 100
Height == 100
\* self.pyrdown = 1
pyrdown == 1
\* filter_border_edges = 0.025, here in 1/1000
filter_border_edges == 25

\* Python 3 round(n / 2): halves round to the even neighbour
RoundHalf(n) ==
    IF n % 2 = 0 THEN n \div 2
    ELSE IF (n \div 2) % 2 = 0 THEN n \div 2 ELSE (n \div 2) + 1

\* {'x': round(width / 2), 'y': round(height / 2)}
Center == [x |-> RoundHalf(width), y |-> RoundHalf(height)]

\* 0 < v < dim - filter_border_edges * dim
BelowUpperBorder(v, dim) == 1000 * v < 1000 * dim - filter_border_edges * dim

AboveLowerBorderInclusive(v, dim) == 0 <= v

AboveLowerBorder(v, dim) == 0 < v

\* the condition of the if at line 486
SeedAccepted(p) ==
    /\ AboveLowerBorder(p.x, width) /\ BelowUpperBorder(p.x, width)
    /\ AboveLowerBorder(p.y, height) /\ BelowUpperBorder(p.y, height)

\* the point of the click taken as the seed, without the factor
ClickSeedUnscaled(p) == [x |-> p.x, y |-> p.y]

\* msg.point.x * pow(2, self.pyrdown)
ClickSeed(p) == [x |-> p.x * (2 ^ pyrdown), y |-> p.y * (2 ^ pyrdown)]

-----------------------------------------------------------------------------
(* Inputs *)

Modalities == {"rgb", "lidar2d", "lidar3d", "depth"}

\* the values of calib_pattern['pattern_type'] for which __init__ builds a pattern
PatternTypes == {"chessboard", "charuco"}

\* range readings, in millimetres: one below minimum_range_value, one equal to it
\* (neighbouring readings of 300 are 66 apart), and one at which neighbouring
\* readings are further apart than the threshold (221)
RangeValues == {200, 300, 1000}

RECURSIVE ScansOfLen(_)
ScansOfLen(n) ==
    IF n = 0 THEN {<<>>}
    ELSE {Append(s, r) : s \in ScansOfLen(n - 1), r \in RangeValues}

AllScans == UNION {ScansOfLen(n) : n \in 0..MaxLen}

\* the range readings of SpecClustering: those of RangeValues, and two at which
\* the point of index 0 (301) and the point of index 3 (312) are at the threshold
\* from each other: (301, 0) and (245, 192), 56 and 192 apart
ClusterRangeValues == RangeValues \cup {301, 312}

RECURSIVE ClusterScansOfLen(_)
ClusterScansOfLen(n) ==
    IF n = 0 THEN {<<>>}
    ELSE {Append(s, r) : s \in ClusterScansOfLen(n - 1), r \in ClusterRangeValues}

ClusterScans == UNION {ClusterScansOfLen(n) : n \in 0..MaxScan}

\* scans of the scanner of 1 degree: a surface seen along its length, readings
\* 190 apart (500, 690, 880, 1071) or the first of them, followed by one reading
\* that is invalid, or beside the middle of the surface, or far behind it
FineWall == <<500, 690, 880, 1071>>
FineScans == {SubSeq(FineWall, 1, n) \o <<r>> : n \in 2..4, r \in {200, 785, 1500}}

\* the scans a lidar2d labeler is fed one after the other
ScansReceived == IF angle_increment = FineIncrement THEN FineScans ELSE AllScans

\* the scans the threads of Spec deliver
SmallScans == {<<>>, <<300, 300>>, <<300, 1000>>}

\* positions the user drags the interactive marker to, in millimetres; the last
\* one is half way between the points of two neighbouring readings of 1000
MarkerPositions ==
    {[x |-> Den * p[1], y |-> Den * p[2], z |-> 0] :
        p \in {<<0, 0>>, <<700, 600>>, <<988, 110>>}}

\* the new_seed_point values labelDepthMsg returns
DepthCandidates ==
    {[x |-> 0, y |-> 0], [x |-> 1, y |-> 1], [x |-> 40, y |-> 60], [x |-> 98, y |-> 50]}

\* the sides of the images of SpecDepth: the small ones and the one of Width, Height
ImageSides == (2..MaxSide) \cup {Width, Height}

\* coordinates of the new_seed_point values labelDepthMsg returns for an image
\* side dim: around both ends of the side, and its middle
CandidateCoords(dim) ==
    {0 - 1, 0, 1, 2, RoundHalf(dim), dim - 3, dim - 2, dim - 1, dim, dim + 1}

Candidates(w, h) == {[x |-> cx, y |-> cy] : cx \in CandidateCoords(w), cy \in CandidateCoords(h)}

\* the labels labelDepthMsg and labelPointCloud2Msg return
RegionLabels ==
    {[detected |-> FALSE, idxs |-> <<>>, idxs_limit_points |-> <<>>],
     [detected |-> TRUE, idxs |-> <<0, 1>>, idxs_limit_points |-> <<2>>]}

\* the results the detect of a chessboard returns: no pattern, or all its corners
ChessboardResults ==
    {[detected |-> FALSE, keypoints |-> <<>>],
     [detected |-> TRUE, keypoints |-> <<[x |-> 10, y |-> 10], [x |-> 20, y |-> 10]>>]}

\* the results the detect of a charuco board returns: no pattern, or some of its
\* corners with the id of each
CharucoResults ==
    {[detected |-> FALSE, keypoints |-> <<>>, ids |-> <<>>],
     [detected |-> TRUE, keypoints |-> <<[x |-> 20, y |-> 10], [x |-> 10, y |-> 10]>>,
      ids |-> <<7, 3>>]}

\* the results self.pattern.detect returns
PatternResults == IF pattern_type = "charuco" THEN CharucoResults ELSE ChessboardResults

\* the seed_point values labelPointCloud2Msg returns on a detection
CloudSeeds == {[x |-> Den * 500, y |-> Den * 100, z |-> Den * 400]}

\* how many points of a cloud lie within the tracker threshold of the seed
GateCounts == {0, 2, 3}

\* the least number of points labelPointCloud2Msg fits a plane to
MinPlanePoints == 3

TooFewToFitBelowTwo(n) == n < 2

TooFewToFit(n) == n < MinPlanePoints

\* labelPointCloud2Msg(self.msg, x_marker, y_marker, z_marker, ...) for a cloud
\* with n points in the gate around the seed m: the labels and the seed_point
\* it returns.  With too few points to fit a plane it returns a miss and the
\* seed it was given; otherwise a miss with that seed, or a detection with the
\* centroid of the inliers
CloudResults(n, m) ==
    {[labels |-> l, seed_point |-> m] : l \in {r \in RegionLabels : ~r.detected}}
        \cup (IF TooFewToFit(n) THEN {}
              ELSE {[labels |-> l, seed_point |-> c] :
                       l \in {r \in RegionLabels : r.detected}, c \in CloudSeeds})

\* the pixels of the mouse clicks
ClickPoints == {[x |-> 10, y |-> 20], [x |-> 30, y |-> 5]}

\* sensor_dict['_name'], sensor_dict['parent'] and sensor_dict['topic']
SensorDict == [name |-> "sensor", parent |-> "sensor_link", topic |-> "/sensor/data"]

NoMsg == [id |-> 0, ranges |-> <<>>]
NoMarker == [none |-> TRUE]
NoSeed == [none |-> TRUE]
NoPoint == [none |-> TRUE]
NoLabeler == [none |-> TRUE]
NoResult == [none |-> TRUE]

-----------------------------------------------------------------------------
(* State after construction *)

cfgVars == <<construction, descriptor, angle_increment, received_first_msg, modality, label_data, pattern_type, width, height>>
pubVars == <<published, stamp_out, images>>
l2Locals == <<clusters, idx_closest_cluster, min_dist, xys>>
dLocals == <<seedRead, new_seed_point>>
clickVars == <<cpc, cmsg, nclicks>>
seedHist == <<seedStart, seedW, rdW, pending>>
l2Hist == <<seed0, repeat, prevIdxs, dragged>>

\* createInteractiveMarker() for lidar2d, createInteractiveMarkerRGBD(x=0.804,
\* y=0.298, z=0.409) for lidar3d and depth; no marker when label_data is off
InitialMarker(m, ld) ==
    IF ~ld THEN NoMarker
    ELSE IF m = "lidar2d" THEN [x |-> 0, y |-> 0, z |-> 0]
    ELSE IF m \in {"lidar3d", "depth"} THEN [x |-> Den * 804, y |-> Den * 298, z |-> Den * 409]
    ELSE NoMarker

\* the initial seed in the middle of the image, for depth only
InitialSeedHalved(m, ld) ==
    IF ld /\ m = "depth" THEN [x |-> width \div 2, y |-> height \div 2] ELSE NoSeed

InitialSeed(m, ld) == IF ld /\ m = "depth" THEN Center ELSE NoSeed

PatternAny(pt) == TRUE

\* the if and the elif on calib_pattern['pattern_type']
PatternKnown(pt) == pt \in PatternTypes

\* a constructor that returns for every modality
ConstructionAnyModality(m, ld, pt) == IF ~PatternKnown(pt) THEN "SystemExit" ELSE "returned"

\* how __init__ ends: sys.exit(1) on a pattern type it does not know, then
\* ValueError on a modality outside the four known ones when label_data is on;
\* otherwise it subscribes to the sensor topic and returns
ConstructionOutcome(m, ld, pt) ==
    IF ~PatternKnown(pt) THEN "SystemExit"
    ELSE IF ld /\ m \notin Modalities THEN "ValueError"
    ELSE "returned"

\* __init__ for a sensor of modality m with a w x h camera: the attributes it has
\* set when it ends
ConstructedWith(m, ld, pt, w, h) ==
    /\ construction = ConstructionOutcome(m, ld, pt)
    /\ descriptor = SensorDict
    /\ received_first_msg = FALSE
    /\ modality = m
    /\ label_data = ld
    /\ pattern_type = pt
    /\ width = (IF construction = "returned" /\ ld /\ m = "depth" THEN w ELSE 0)
    /\ height = (IF construction = "returned" /\ ld /\ m = "depth" THEN h ELSE 0)
    /\ lock = 0
    /\ pc = [t \in Threads |-> "idle"]
    /\ arg = [t \in Threads |-> NoMsg]
    /\ msg = NoMsg
    /\ labels = [detected |-> FALSE, idxs |-> <<>>]
    /\ published = <<>>
    /\ stamp_out = 0
    /\ marker = InitialMarker(m, construction = "returned" /\ ld)
    /\ seed = InitialSeed(m, construction = "returned" /\ ld)
    /\ clusters = [t \in Threads |-> <<>>]
    /\ idx_closest_cluster = [t \in Threads |-> 0]
    /\ min_dist = [t \in Threads |-> sys_maxint]
    /\ xys = [t \in Threads |-> NoMsg]
    /\ seedRead = [t \in Threads |-> NoPoint]
    /\ new_seed_point = [t \in Threads |-> NoPoint]
    /\ cpc = "idle"
    /\ cmsg = NoPoint
    /\ nframes = 0
    /\ nclicks = 0
    /\ labelsOf = [detected |-> 0, idxs |-> 0]
    /\ seedStart = [t \in Threads |-> NoSeed]
    /\ seedW = [x |-> 0, y |-> 0]
    /\ rdW = [t \in Threads |-> [x |-> 0, y |-> 0]]
    /\ pending = NoPoint
    /\ seed0 = NoMarker
    /\ repeat = FALSE
    /\ prevIdxs = <<>>
    /\ dragged = FALSE
    /\ gated = 0
    /\ result = [t \in Threads |-> NoResult]
    /\ images = [t \in Threads |-> <<>>]
    /\ calls = [acquired |-> 0, labeled |-> 0]
    /\ applied = <<>>

Constructed(m, ld, pt) == ConstructedWith(m, ld, pt, Width, Height)

\* the sensors and patterns a labeler is constructed for: every modality, and
\* one that is not known, with label_data on and off, with a chessboard and with
\* a pattern type that is not known; a charuco board for rgb, the one modality
\* whose labeling uses self.pattern
Configs ==
    {<<m, ld, pt>> : m \in Modalities \cup {"unknown"}, ld \in BOOLEAN, pt \in {"chessboard", "unknown"}}
        \cup {<<"rgb", ld, "charuco">> : ld \in BOOLEAN}

Init ==
    /\ \E c \in Configs : Constructed(c[1], c[2], c[3])
    /\ angle_increment = CoarseIncrement
    /\ other = NoLabeler

-----------------------------------------------------------------------------
(* sensorDataReceivedCallback, step by step, run by thread t *)

\* what the frames of this sensor carry
FrameData == IF modality = "lidar2d" THEN SmallScans ELSE {<<>>}

\* rospy calls sensorDataReceivedCallback(msg) on thread t
Deliver(t) ==
    /\ construction = "returned"
    /\ pc[t] = "idle"
    /\ nframes < MaxFrames
    /\ \E r \in FrameData : arg' = [arg EXCEPT ![t] = [id |-> nframes + 1, ranges |-> r]]
    /\ nframes' = nframes + 1
    /\ pc' = [pc EXCEPT ![t] = "acquire"]
    /\ UNCHANGED <<cfgVars, applied, other, calls, gated, result, pubVars, lock, msg, labels, marker, seed, l2Locals, dLocals, clickVars,
                   labelsOf, seedHist, l2Hist>>

LockFreeNonBlocking == TRUE

\* self.lock.acquire() returns only while no thread holds the lock
LockFree == lock = 0

Acquire(t) ==
    /\ pc[t] = "acquire"
    /\ LockFree
    /\ lock' = t
    /\ pc' = [pc EXCEPT ![t] = "store"]
    /\ seedStart' = [seedStart EXCEPT ![t] = seed]
    /\ pending' = NoPoint
    /\ calls' = [calls EXCEPT !.acquired = @ + 1]
    /\ UNCHANGED <<cfgVars, applied, other, gated, result, pubVars, arg, msg, labels, marker, seed, l2Locals, dLocals, clickVars,
                   nframes, labelsOf, seedW, rdW, l2Hist>>

LabelingAlways == TRUE

LabelingUnlessNewerWaits == label_data /\ ~\E u \in Threads : pc[u] = "acquire"

\* if self.label_data:
LabelingEnabled == label_data

Negated(v) == ~v

\* an attribute the callback reads and does not assign keeps its value
NotAssigned(v) == v

SetByFrame(v) == TRUE

\* sensorDataReceivedCallback and labelData have no assignment to
\* self.received_first_msg
FirstMsgFlag(v) == v

\* self.msg = msg, then the test of self.label_data, which it only reads
Store(t) ==
    /\ pc[t] = "store"
    /\ msg' = arg[t]
    /\ calls' = [calls EXCEPT !.labeled = IF LabelingEnabled THEN @ + 1 ELSE @]
    /\ label_data' = NotAssigned(label_data)
    /\ received_first_msg' = FirstMsgFlag(received_first_msg)
    /\ pc' = [pc EXCEPT ![t] = IF LabelingEnabled THEN "reset" ELSE "release"]
    /\ UNCHANGED <<construction, descriptor, angle_increment, modality, pattern_type, width, height, applied, other, gated, result, pubVars, lock, arg, labels, marker, seed, l2Locals, dLocals, clickVars,
                   nframes, labelsOf, seedHist, l2Hist>>

\* the branch of labelData taken for the modality; the else branch raises
Branch(m) ==
    CASE m = "lidar2d" -> "cluster"
      [] m = "rgb" -> "rgb"
      [] m = "lidar3d" -> "lidar3d"
      [] m = "depth" -> "readx"
      [] OTHER -> "raised"

ResetLabelsSkipped(l) == l

\* labelData: self.labels['detected'] = False; self.labels['idxs'] = []
ResetLabels(l) == [l EXCEPT !.detected = FALSE, !.idxs = <<>>]

Reset(t) ==
    /\ pc[t] = "reset"
    /\ labels' = ResetLabels(labels)
    /\ labelsOf' = [detected |-> msg.id, idxs |-> msg.id]
    /\ pc' = [pc EXCEPT ![t] = Branch(modality)]
    /\ UNCHANGED <<cfgVars, applied, other, calls, gated, result, pubVars, lock, arg, msg, marker, seed, l2Locals, dLocals, clickVars,
                   nframes, seedHist, l2Hist>>

\* lidar2d: xs, ys and the clustering loop
Cluster(t) ==
    /\ pc[t] = "cluster"
    /\ xys' = [xys EXCEPT ![t] = msg]
    /\ clusters' = [clusters EXCEPT ![t] = Clustering(msg.ranges)]
    /\ pc' = [pc EXCEPT ![t] = "associate"]
    /\ UNCHANGED <<cfgVars, applied, other, calls, gated, result, pubVars, lock, arg, msg, labels, marker, seed, idx_closest_cluster,
                   min_dist, dLocals, clickVars, nframes, labelsOf, seedHist, l2Hist>>

\* lidar2d: the association loops, then closest_cluster = clusters[idx_closest_cluster],
\* which raises IndexError on an empty cluster list
Associate(t) ==
    /\ pc[t] = "associate"
    /\ LET a == Association(t, clusters[t], xys[t].ranges, marker)
       IN  /\ idx_closest_cluster' = [idx_closest_cluster EXCEPT ![t] = a.idx_closest_cluster]
           /\ min_dist' = [min_dist EXCEPT ![t] = a.min_dist]
    /\ pc' = [pc EXCEPT ![t] = IF clusters[t] = <<>> THEN "raised" ELSE "marker"]
    /\ UNCHANGED <<cfgVars, applied, other, calls, gated, result, pubVars, lock, arg, msg, labels, marker, seed, clusters, xys, dLocals,
                   clickVars, nframes, labelsOf, seedHist, l2Hist>>

\* lidar2d: the marker is brought to the middle point of the closest cluster
MoveMarker(t) ==
    /\ pc[t] = "marker"
    /\ marker' = Centroid(xys[t].ranges, clusters[t][idx_closest_cluster[t] + 1].idxs)
    /\ dragged' = FALSE
    /\ pc' = [pc EXCEPT ![t] = "detected"]
    /\ UNCHANGED <<cfgVars, applied, other, calls, gated, result, pubVars, lock, arg, msg, labels, seed, l2Locals, dLocals, clickVars,
                   nframes, labelsOf, seedHist, seed0, repeat, prevIdxs>>

\* lidar2d: self.labels['detected'] = True
SetDetected(t) ==
    /\ pc[t] = "detected"
    /\ labels' = [labels EXCEPT !.detected = TRUE]
    /\ labelsOf' = [labelsOf EXCEPT !.detected = xys[t].id]
    /\ pc' = [pc EXCEPT ![t] = "idxs"]
    /\ UNCHANGED <<cfgVars, applied, other, calls, gated, result, pubVars, lock, arg, msg, marker, seed, l2Locals, dLocals, clickVars,
                   nframes, seedHist, l2Hist>>

\* lidar2d: self.labels['idxs'] = clusters[idx_closest_cluster].idxs_filtered, and
\* the two point clouds are published
SetIdxs(t) ==
    /\ pc[t] = "idxs"
    /\ labels' = [labels EXCEPT !.idxs = IdxsFiltered(clusters[t][idx_closest_cluster[t] + 1].idxs)]
    /\ labelsOf' = [labelsOf EXCEPT !.idxs = xys[t].id]
    /\ published' = clusters[t]
    /\ stamp_out' = msg.id
    /\ pc' = [pc EXCEPT ![t] = "release"]
    /\ UNCHANGED <<cfgVars, applied, other, calls, gated, result, images, lock, arg, msg, marker, seed, l2Locals,
                   dLocals, clickVars, nframes, seedHist, l2Hist>>

ImageStampOfLastDelivered == nframes

\* msg_out.header.stamp = self.msg.header.stamp (and frame_id likewise): the
\* header of the annotated image is the header of the stored frame
ImageStamp == msg.id

CornerEntryWithoutId(res, k) == [x |-> res.keypoints[k].x, y |-> res.keypoints[k].y]

\* the entry of c for the k-th keypoint: with its id when the result has ids
CornerEntry(res, k) ==
    IF "ids" \in DOMAIN res
    THEN [x |-> res.keypoints[k].x, y |-> res.keypoints[k].y, id |-> res.ids[k]]
    ELSE [x |-> res.keypoints[k].x, y |-> res.keypoints[k].y]

\* the list c built by the loop over result['keypoints']
Corners(res) == [k \in 1..Len(res.keypoints) |-> CornerEntry(res, k)]

\* rgb: self.pattern.detect, the labels, and the annotated image is published
LabelImage(t) ==
    /\ pc[t] = "rgb"
    /\ \E res \in PatternResults :
          /\ result' = [result EXCEPT ![t] = res]
          /\ labels' = IF res.detected
                       THEN [labels EXCEPT !.detected = TRUE, !.idxs = Corners(res)]
                       ELSE labels
    /\ labelsOf' = [detected |-> msg.id, idxs |-> msg.id]
    /\ stamp_out' = ImageStamp
    /\ images' = [images EXCEPT ![t] = Append(@, ImageStamp)]
    /\ pc' = [pc EXCEPT ![t] = "release"]
    /\ UNCHANGED <<cfgVars, applied, other, calls, gated, published, lock, arg, msg, marker, seed, l2Locals, dLocals,
                   clickVars, nframes, seedHist, l2Hist>>

\* lidar3d: labelPointCloud2Msg, the labelled cloud is published and the marker
\* takes the returned seed_point
LabelCloud(t) ==
    /\ pc[t] = "lidar3d"
    /\ \E n \in GateCounts : \E res \in CloudResults(n, marker) :
          /\ gated' = n
          /\ labels' = res.labels
          /\ marker' = res.seed_point
    /\ seed0' = marker
    /\ dragged' = FALSE
    /\ labelsOf' = [detected |-> msg.id, idxs |-> msg.id]
    /\ stamp_out' = msg.id
    /\ pc' = [pc EXCEPT ![t] = "release"]
    /\ UNCHANGED <<cfgVars, applied, other, calls, result, published, images, lock, arg, msg, seed, l2Locals,
                   dLocals, clickVars, nframes, seedHist, repeat, prevIdxs>>

\* history: the write event of the pass of thread t (one per frame), and of the
\* k-th mouse click; 0 is the write of the constructor
PassWrite(t) == arg[t].id
ClickWrite(k) == 0 - k

\* depth: labelDepthMsg reads seed['x'] of the dictionary it was passed
ReadSeedX(t) ==
    /\ pc[t] = "readx"
    /\ seedRead' = [seedRead EXCEPT ![t] = [x |-> seed.x]]
    /\ rdW' = [rdW EXCEPT ![t] = [x |-> seedW.x, y |-> 0]]
    /\ pc' = [pc EXCEPT ![t] = "ready"]
    /\ UNCHANGED <<cfgVars, applied, other, calls, gated, result, pubVars, lock, arg, msg, labels, marker, seed, l2Locals, new_seed_point,
                   clickVars, nframes, labelsOf, seedStart, seedW, pending, l2Hist>>

\* depth: labelDepthMsg reads seed['y']
ReadSeedY(t) ==
    /\ pc[t] = "ready"
    /\ seedRead' = [seedRead EXCEPT ![t] = [x |-> seedRead[t].x, y |-> seed.y]]
    /\ rdW' = [rdW EXCEPT ![t].y = seedW.y]
    /\ pc' = [pc EXCEPT ![t] = "grow"]
    /\ UNCHANGED <<cfgVars, applied, other, calls, gated, result, pubVars, lock, arg, msg, labels, marker, seed, l2Locals, new_seed_point,
                   clickVars, nframes, labelsOf, seedStart, seedW, pending, l2Hist>>

\* depth: labelDepthMsg returns; self.labels and new_seed_point are assigned
LabelDepth(t) ==
    /\ pc[t] = "grow"
    /\ labels' \in RegionLabels
    /\ \E c \in DepthCandidates : new_seed_point' = [new_seed_point EXCEPT ![t] = c]
    /\ labelsOf' = [detected |-> msg.id, idxs |-> msg.id]
    /\ pc' = [pc EXCEPT ![t] = "gate"]
    /\ UNCHANGED <<cfgVars, applied, other, calls, gated, result, pubVars, lock, arg, msg, marker, seed, l2Locals, seedRead, clickVars,
                   nframes, seedHist, l2Hist>>

\* depth: the if at line 486
Gate(t) ==
    /\ pc[t] = "gate"
    /\ pc' = [pc EXCEPT ![t] = IF SeedAccepted(new_seed_point[t]) THEN "writex" ELSE "center"]
    /\ UNCHANGED <<cfgVars, applied, other, calls, gated, result, pubVars, lock, arg, msg, labels, marker, seed, l2Locals, dLocals,
                   clickVars, nframes, labelsOf, seedHist, l2Hist>>

\* depth: self.seed['x'] = new_seed_point['x']
WriteSeedX(t) ==
    /\ pc[t] = "writex"
    /\ seed' = [seed EXCEPT !.x = new_seed_point[t].x]
    /\ seedW' = [seedW EXCEPT !.x = PassWrite(t)]
    /\ pc' = [pc EXCEPT ![t] = "writey"]
    /\ UNCHANGED <<cfgVars, applied, other, calls, gated, result, pubVars, lock, arg, msg, labels, marker, l2Locals, dLocals, clickVars,
                   nframes, labelsOf, seedStart, rdW, pending, l2Hist>>

\* depth: self.seed['y'] = new_seed_point['y'], and the annotated image is published
WriteSeedY(t) ==
    /\ pc[t] = "writey"
    /\ seed' = [seed EXCEPT !.y = new_seed_point[t].y]
    /\ seedW' = [seedW EXCEPT !.y = PassWrite(t)]
    /\ stamp_out' = ImageStamp
    /\ images' = [images EXCEPT ![t] = Append(@, ImageStamp)]
    /\ pc' = [pc EXCEPT ![t] = "release"]
    /\ UNCHANGED <<cfgVars, applied, other, calls, gated, result, published, lock, arg, msg, labels, marker, l2Locals, dLocals, clickVars,
                   nframes, labelsOf, seedStart, rdW, pending, l2Hist>>

\* depth: self.seed = {'x': round(width / 2), 'y': round(height / 2)}, and the
\* annotated image is published
CenterSeed(t) ==
    /\ pc[t] = "center"
    /\ seed' = Center
    /\ seedW' = [x |-> PassWrite(t), y |-> PassWrite(t)]
    /\ stamp_out' = ImageStamp
    /\ images' = [images EXCEPT ![t] = Append(@, ImageStamp)]
    /\ pc' = [pc EXCEPT ![t] = "release"]
    /\ UNCHANGED <<cfgVars, applied, other, calls, gated, result, published, lock, arg, msg, labels, marker, l2Locals, dLocals, clickVars,
                   nframes, labelsOf, seedStart, rdW, pending, l2Hist>>

\* self.lock.release() and return: the call's argument and locals are gone
\* (min_dist keeps its last value, which nothing reads)
Release(t) ==
    /\ pc[t] = "release"
    /\ lock' = 0
    /\ pc' = [pc EXCEPT ![t] = "idle"]
    /\ arg' = [arg EXCEPT ![t] = NoMsg]
    /\ clusters' = [clusters EXCEPT ![t] = <<>>]
    /\ idx_closest_cluster' = [idx_closest_cluster EXCEPT ![t] = 0]
    /\ xys' = [xys EXCEPT ![t] = NoMsg]
    /\ seedRead' = [seedRead EXCEPT ![t] = NoPoint]
    /\ new_seed_point' = [new_seed_point EXCEPT ![t] = NoPoint]
    /\ seedStart' = [seedStart EXCEPT ![t] = NoSeed]
    /\ rdW' = [rdW EXCEPT ![t] = [x |-> 0, y |-> 0]]
    /\ result' = [result EXCEPT ![t] = NoResult]
    /\ images' = [images EXCEPT ![t] = <<>>]
    /\ UNCHANGED <<cfgVars, applied, other, calls, gated, published, stamp_out, msg, labels, marker, seed, min_dist, clickVars,
                   nframes, labelsOf, seedW, pending, l2Hist>>

-----------------------------------------------------------------------------
(* mouseClickReceivedCallback, run by the thread of the mouse_click subscriber, *)
(* which exists for a depth labeler with label_data on                          *)

\* self.seed['x'] = msg.point.x * pow(2, self.pyrdown)
MouseClickX ==
    /\ cpc = "idle"
    /\ construction = "returned" /\ modality = "depth" /\ label_data
    /\ nclicks < MaxClicks
    /\ \E p \in ClickPoints :
          /\ cmsg' = p
          /\ seed' = [seed EXCEPT !.x = ClickSeed(p).x]
    /\ nclicks' = nclicks + 1
    /\ seedW' = [seedW EXCEPT !.x = ClickWrite(nclicks + 1)]
    /\ cpc' = "y"
    /\ UNCHANGED <<cfgVars, applied, other, calls, gated, result, pubVars, lock, pc, arg, msg, labels, marker, l2Locals, dLocals,
                   nframes, labelsOf, seedStart, rdW, pending, l2Hist>>

\* self.seed['y'] = msg.point.y * pow(2, self.pyrdown)
MouseClickY ==
    /\ cpc = "y"
    /\ seed' = [seed EXCEPT !.y = ClickSeed(cmsg).y]
    /\ seedW' = [seedW EXCEPT !.y = ClickWrite(nclicks)]
    /\ pending' = ClickSeed(cmsg)
    /\ cpc' = "idle"
    /\ UNCHANGED <<cfgVars, applied, other, calls, gated, result, pubVars, lock, pc, arg, msg, labels, marker, l2Locals, dLocals,
                   cmsg, nclicks, nframes, labelsOf, seedStart, rdW, l2Hist>>

\* the interactive marker server writes the pose the user dragged the marker to
\* into the marker object it shares with the labeler (lidar2d and lidar3d read it)
MarkerMoved ==
    /\ construction = "returned" /\ label_data /\ modality \in {"lidar2d", "lidar3d"}
    /\ \E p \in MarkerPositions : marker' = p
    /\ marker' # marker
    /\ dragged' = TRUE
    /\ UNCHANGED <<cfgVars, applied, other, calls, gated, result, pubVars, lock, pc, arg, msg, labels, seed, l2Locals, dLocals, clickVars,
                   nframes, labelsOf, seedHist, seed0, repeat, prevIdxs>>

FeedbackWaitsForLock == lock = 0

\* markerFeedback has no self.lock.acquire(): it runs as soon as it is called
FeedbackRuns == TRUE

\* markerFeedback(feedback), called by the interactive marker server for the
\* marker inserted with it: self.server.applyChanges() and nothing else
MarkerFeedback ==
    /\ construction = "returned" /\ label_data /\ modality \in {"lidar2d", "lidar3d", "depth"}
    /\ FeedbackRuns
    /\ Len(applied) < MaxFeedbacks
    /\ applied' = Append(applied, lock)
    /\ UNCHANGED <<cfgVars, other, calls, gated, result, pubVars, lock, pc, arg, msg, labels, marker, seed,
                   l2Locals, dLocals, clickVars, nframes, labelsOf, seedHist, l2Hist>>

Next ==
    \/ \E t \in Threads :
          \/ Deliver(t) \/ Acquire(t) \/ Store(t) \/ Reset(t)
          \/ Cluster(t) \/ Associate(t) \/ MoveMarker(t) \/ SetDetected(t) \/ SetIdxs(t)
          \/ LabelImage(t) \/ LabelCloud(t)
          \/ ReadSeedX(t) \/ ReadSeedY(t) \/ LabelDepth(t) \/ Gate(t)
          \/ WriteSeedX(t) \/ WriteSeedY(t) \/ CenterSeed(t)
          \/ Release(t)
    \/ MouseClickX
    \/ MouseClickY
    \/ MarkerMoved

Spec == Init /\ [][Next]_vars

\* the steps of the call of thread t once rospy has made it
CallStep(t) ==
    \/ Acquire(t) \/ Store(t) \/ Reset(t)
    \/ Cluster(t) \/ Associate(t) \/ MoveMarker(t) \/ SetDetected(t) \/ SetIdxs(t)
    \/ LabelImage(t) \/ LabelCloud(t)
    \/ ReadSeedX(t) \/ ReadSeedY(t) \/ LabelDepth(t) \/ Gate(t)
    \/ WriteSeedX(t) \/ WriteSeedY(t) \/ CenterSeed(t)
    \/ Release(t)


-----------------------------------------------------------------------------
(* A lidar2d labeler fed one scan after the other: each frame-arrival call runs *)
(* from its call to its return, or to the exception that ends it.               *)

\* the clusters of every scan, computed once
ClusteringOf == [r \in ScansReceived |-> Clustering(r)]

InitLidar2d ==
    /\ Constructed("lidar2d", TRUE, "chessboard")
    /\ angle_increment = CoarseIncrement
    /\ other = NoLabeler

\* sensorDataReceivedCallback(msg) with msg.ranges = r, run by thread 1; the
\* locals clusters and idx_closest_cluster are kept as the call left them
ScanReceived ==
    /\ construction = "returned"
    /\ pc[1] = "idle"
    /\ LockFree
    /\ \E r \in ScansReceived :
          LET f == [id |-> 1, ranges |-> r]
              cl == ClusteringOf[r]
              a == Association(1, cl, r, marker)
              closest_cluster == cl[a.idx_closest_cluster + 1]
          IN  /\ msg' = f
              /\ clusters' = [clusters EXCEPT ![1] = cl]
              /\ idx_closest_cluster' = [idx_closest_cluster EXCEPT ![1] = a.idx_closest_cluster]
              /\ min_dist' = [min_dist EXCEPT ![1] = a.min_dist]
              /\ seed0' = marker
              /\ dragged' = (cl = <<>> /\ dragged)
              /\ IF cl = <<>>
                 THEN /\ lock' = 1
                      /\ pc' = [pc EXCEPT ![1] = "raised"]
                      /\ arg' = [arg EXCEPT ![1] = f]
                      /\ xys' = [xys EXCEPT ![1] = f]
                      /\ labels' = ResetLabels(labels)
                      /\ repeat' = FALSE
                      /\ prevIdxs' = <<>>
                      /\ UNCHANGED <<marker, pubVars>>
                 ELSE /\ marker' = Centroid(r, closest_cluster.idxs)
                      /\ labels' = [detected |-> TRUE, idxs |-> IdxsFiltered(closest_cluster.idxs)]
                      /\ published' = cl
                      /\ stamp_out' = f.id
                      /\ repeat' = (msg # NoMsg /\ msg.ranges = r /\ seed0 = marker)
                      /\ prevIdxs' = IF repeat' THEN labels.idxs ELSE <<>>
                      /\ UNCHANGED <<lock, pc, arg, xys, images>>
    /\ labelsOf' = [detected |-> 1, idxs |-> 1]
    /\ UNCHANGED <<cfgVars, applied, other, calls, gated, result, seed, dLocals, clickVars, nframes, seedHist>>

NextLidar2d ==
    \/ ScanReceived
    \/ MarkerMoved

SpecLidar2d == InitLidar2d /\ [][NextLidar2d]_vars

\* the same labeler on the scanner of 1 degree
InitFineLidar2d ==
    /\ Constructed("lidar2d", TRUE, "chessboard")
    /\ angle_increment = FineIncrement
    /\ other = NoLabeler

SpecFineLidar2d == InitFineLidar2d /\ [][NextLidar2d]_vars

-----------------------------------------------------------------------------
(* A depth labeler with a camera of any of the resolutions, fed one image after *)
(* the other, with mouse clicks between the images: each call runs from its     *)
(* call to its return.                                                          *)

InitDepth ==
    /\ \E w \in ImageSides, h \in ImageSides : ConstructedWith("depth", TRUE, "chessboard", w, h)
    /\ angle_increment = CoarseIncrement
    /\ other = NoLabeler

\* the points of the PointStamped messages of the mouse_click topic: the pixels
\* of ClickPoints and the last pixel of the depth image halved pyrdown times,
\* and the point one column past that image, which the callback takes as well
ClickPixels ==
    {p \in ClickPoints \cup {[x |-> (width \div (2 ^ pyrdown)) - 1,
                                y |-> (height \div (2 ^ pyrdown)) - 1]} :
        p.x < width \div (2 ^ pyrdown) /\ p.y < height \div (2 ^ pyrdown)}
      \cup {[x |-> (width + 1) \div (2 ^ pyrdown), y |-> 0]}

\* sensorDataReceivedCallback(msg) of a depth labeler, run by thread 1; the local
\* new_seed_point is kept as the call left it.  labelDepthMsg returns any of the
\* candidates, or the seed it was given
DepthFrameReceived ==
    /\ construction = "returned"
    /\ pc[1] = "idle"
    /\ LockFree
    /\ cpc = "idle"
    /\ msg' = [id |-> 1, ranges |-> <<>>]
    /\ labels' \in RegionLabels
    /\ \E c \in Candidates(width, height) \cup {seed} :
          /\ new_seed_point' = [new_seed_point EXCEPT ![1] = c]
          /\ seed' = IF SeedAccepted(c) THEN [seed EXCEPT !.x = c.x, !.y = c.y] ELSE Center
    /\ seedRead' = [seedRead EXCEPT ![1] = seed]
    /\ seedStart' = [seedStart EXCEPT ![1] = seed]
    /\ seedW' = [x |-> 1, y |-> 1]
    /\ pending' = NoPoint
    /\ stamp_out' = 1
    /\ images' = [images EXCEPT ![1] = <<1>>]
    /\ labelsOf' = [detected |-> 1, idxs |-> 1]
    /\ UNCHANGED <<cfgVars, applied, other, calls, gated, result, published, lock, pc, arg, marker, l2Locals, clickVars, nframes,
                   rdW, l2Hist>>

\* mouseClickReceivedCallback(msg), both statements
MouseClicked ==
    /\ construction = "returned" /\ modality = "depth" /\ label_data
    /\ cpc = "idle"
    /\ \E p \in ClickPixels :
          /\ seed' = [seed EXCEPT !.x = ClickSeed(p).x, !.y = ClickSeed(p).y]
          /\ pending' = ClickSeed(p)
    /\ seedW' = [x |-> ClickWrite(1), y |-> ClickWrite(1)]
    /\ UNCHANGED <<cfgVars, applied, other, calls, gated, result, pubVars, lock, pc, arg, msg, labels, marker, l2Locals, dLocals,
                   clickVars, nframes, labelsOf, seedStart, rdW, l2Hist>>

NextDepth ==
    \/ DepthFrameReceived
    \/ MouseClicked

SpecDepth == InitDepth /\ [][NextDepth]_vars

-----------------------------------------------------------------------------
(* The clustering loop of labelData on the first scan of a lidar2d labeler:    *)
(* the frame-arrival call of thread 1 from its call to the end of the loop.    *)

\* sensorDataReceivedCallback(msg) with msg.ranges = r up to the end of the
\* clustering loop: the lock is taken, the frame stored, the labels reset and
\* the clusters built
ScanClustered ==
    /\ construction = "returned"
    /\ pc[1] = "idle"
    /\ LockFree
    /\ msg = NoMsg
    /\ \E r \in ClusterScans :
          LET f == [id |-> 1, ranges |-> r]
          IN  /\ arg' = [arg EXCEPT ![1] = f]
              /\ msg' = f
              /\ xys' = [xys EXCEPT ![1] = f]
              /\ clusters' = [clusters EXCEPT ![1] = Clustering(r)]
    /\ lock' = 1
    /\ labels' = ResetLabels(labels)
    /\ labelsOf' = [detected |-> 1, idxs |-> 1]
    /\ nframes' = nframes + 1
    /\ pc' = [pc EXCEPT ![1] = "associate"]
    /\ UNCHANGED <<cfgVars, applied, other, calls, gated, result, pubVars, marker, seed, idx_closest_cluster, min_dist, dLocals,
                   clickVars, seedHist, l2Hist>>

NextClustering == ScanClustered

SpecClustering == InitLidar2d /\ [][NextClustering]_vars

-----------------------------------------------------------------------------
(* Two labelers in one process: the lidar2d labeler of the variables above,    *)
(* step by step, and the labeler of a depth camera, whose attributes are the   *)
(* fields of other.  Each is an InteractiveDataLabeler object with its own     *)
(* lock, msg, labels and seed, and a subscriber to its own topic, whose        *)
(* callbacks rospy runs on a thread of that topic.                             *)

\* __init__ of the depth labeler: its attributes, the position of the thread of
\* its topic and the argument of that thread's call
OtherConstructed ==
    [modality |-> "depth", label_data |-> TRUE, width |-> Width, height |-> Height,
     lock |-> 0, pc |-> "idle", arg |-> NoMsg, msg |-> NoMsg,
     labels |-> [detected |-> FALSE, idxs |-> <<>>],
     seed |-> [x |-> RoundHalf(Width), y |-> RoundHalf(Height)],
     nframes |-> 0]

InitTwoLabelers ==
    /\ Constructed("lidar2d", TRUE, "chessboard")
    /\ angle_increment = CoarseIncrement
    /\ other = OtherConstructed

\* rospy calls sensorDataReceivedCallback(msg) of the depth labeler
OtherDeliver ==
    /\ other.pc = "idle"
    /\ other.nframes < MaxFrames
    /\ other' = [other EXCEPT !.pc = "acquire", !.nframes = @ + 1,
                              !.arg = [id |-> other.nframes + 1, ranges |-> <<>>]]
    /\ UNCHANGED <<cfgVars, applied, calls, gated, result, pubVars, lock, pc, arg, msg, labels, marker, seed, l2Locals,
                   dLocals, clickVars, nframes, labelsOf, seedHist, l2Hist>>

OtherLockShared == lock = 0

\* self.lock.acquire() of the depth labeler: self.lock is the Lock its own
\* __init__ created
OtherLockFree == other.lock = 0

OtherAcquire ==
    /\ other.pc = "acquire"
    /\ OtherLockFree
    /\ other' = [other EXCEPT !.pc = "store", !.lock = 1]
    /\ UNCHANGED <<cfgVars, applied, calls, gated, result, pubVars, lock, pc, arg, msg, labels, marker, seed, l2Locals,
                   dLocals, clickVars, nframes, labelsOf, seedHist, l2Hist>>

\* self.msg = msg of the depth labeler
OtherStore ==
    /\ other.pc = "store"
    /\ other' = [other EXCEPT !.pc = "label", !.msg = other.arg]
    /\ UNCHANGED <<cfgVars, applied, calls, gated, result, pubVars, lock, pc, arg, msg, labels, marker, seed, l2Locals,
                   dLocals, clickVars, nframes, labelsOf, seedHist, l2Hist>>

\* the if at line 486 for the camera of the depth labeler
OtherSeedAccepted(p) ==
    /\ AboveLowerBorder(p.x, other.width) /\ BelowUpperBorder(p.x, other.width)
    /\ AboveLowerBorder(p.y, other.height) /\ BelowUpperBorder(p.y, other.height)

\* labelData of the depth labeler: the labels labelDepthMsg returns, and the
\* seed for its next frame
OtherLabel ==
    /\ other.pc = "label"
    /\ \E l \in RegionLabels, c \in DepthCandidates :
          other' = [other EXCEPT !.pc = "release", !.labels = l,
                                 !.seed = IF OtherSeedAccepted(c) THEN c
                                          ELSE [x |-> RoundHalf(other.width),
                                                y |-> RoundHalf(other.height)]]
    /\ UNCHANGED <<cfgVars, applied, calls, gated, result, pubVars, lock, pc, arg, msg, labels, marker, seed, l2Locals,
                   dLocals, clickVars, nframes, labelsOf, seedHist, l2Hist>>

\* self.lock.release() of the depth labeler, and its call returns
OtherRelease ==
    /\ other.pc = "release"
    /\ other' = [other EXCEPT !.pc = "idle", !.lock = 0, !.arg = NoMsg]
    /\ UNCHANGED <<cfgVars, applied, calls, gated, result, pubVars, lock, pc, arg, msg, labels, marker, seed, l2Locals,
                   dLocals, clickVars, nframes, labelsOf, seedHist, l2Hist>>

\* the steps of the frame-arrival threads of the lidar2d labeler
LabelerStep ==
    \E t \in Threads :
        \/ Deliver(t) \/ Acquire(t) \/ Store(t) \/ Reset(t)
        \/ Cluster(t) \/ Associate(t) \/ MoveMarker(t) \/ SetDetected(t) \/ SetIdxs(t)
        \/ Release(t)

NextTwoLabelers ==
    \/ LabelerStep
    \/ OtherDeliver
    \/ OtherAcquire
    \/ OtherStore
    \/ OtherLabel
    \/ OtherRelease

SpecTwoLabelers == InitTwoLabelers /\ [][NextTwoLabelers]_vars

-----------------------------------------------------------------------------
(* Frame arrivals on the labeler of a camera or of a 2D lidar, with threads    *)
(* that go on running: a call that can take its next step takes it.            *)

InitArrivals ==
    /\ \E m \in {"rgb", "lidar2d"} : Constructed(m, TRUE, "chessboard")
    /\ angle_increment = CoarseIncrement
    /\ other = NoLabeler

NextArrivals ==
    \/ LabelerStep
    \/ \E t \in Threads : LabelImage(t)

\* a lidar2d or a depth labeler, whose marker calls markerFeedback at any time
InitFeedback ==
    /\ \E m \in {"lidar2d", "depth"} : Constructed(m, TRUE, "chessboard")
    /\ angle_increment = CoarseIncrement
    /\ other = NoLabeler

NextFeedback ==
    \/ LabelerStep
    \/ \E t \in Threads :
          \/ ReadSeedX(t) \/ ReadSeedY(t) \/ LabelDepth(t) \/ Gate(t)
          \/ WriteSeedX(t) \/ WriteSeedY(t) \/ CenterSeed(t)
    \/ MarkerFeedback

SpecFeedback == InitFeedback /\ [][NextFeedback]_vars

SpecArrivals ==
    InitArrivals /\ [][NextArrivals]_vars /\ \A t \in Threads : WF_vars(CallStep(t))

-----------------------------------------------------------------------------
(* Properties *)

\* thread t is between acquiring the lock and releasing it
InPass(t) == pc[t] \notin {"idle", "acquire", "raised"}

\* no frame-arrival call is in progress
Quiescent == \A t \in Threads : pc[t] \in {"idle", "raised"}

\* C1: at most one labeling pass (store frame, labelData, publish) is executing
\* at any time, whatever the interleaving of the frame-arrival calls.
C1_OnePassAtATime == \A t, u \in Threads : (InPass(t) /\ InPass(u)) => t = u

\* a pass is in flight while another frame-arrival call waits for the lock
C1_Witness == \E t, u \in Threads : InPass(t) /\ pc[u] = "acquire" /\ pc[t] # "store"

\* C2: once the racing frame-arrival calls are over, both fields of the labels
\* were computed from one frame, and it is the frame stored in self.msg.
C2_LabelsOfStoredFrame ==
    (label_data /\ Quiescent /\ msg # NoMsg)
        => (labelsOf.detected = msg.id /\ labelsOf.idxs = msg.id)

\* two calls raced, the frame delivered first was stored last, and it was labeled
C2_Witness ==
    /\ label_data /\ Quiescent /\ nframes = 2 /\ msg.id = 1
    /\ labels.detected /\ labelsOf.idxs = 1
    /\ \A t \in Threads : pc[t] = "idle"

\* C3: a frame-arrival call that acquired the lock has released it when it ends,
\* also when labelData raised.
C3_LockReleasedOnFailure == \A t \in Threads : pc[t] = "raised" => lock # t

\* C4: between passes, a delivered mouse-click seed that no pass has started
\* from yet is the value of the seed.
C4_ClickIsNextSeed ==
    (modality = "depth" /\ lock = 0 /\ cpc = "idle" /\ pending # NoPoint) => seed = pending

\* thread t is in a depth pass whose labelDepthMsg has read both seed coordinates
HasReadSeed(t) == pc[t] \in {"grow", "gate", "writex", "writey", "center"}

\* C5: the seed a depth pass works from is the seed as it was when the pass
\* started.
C5_SeedOfPassStart == \A t \in Threads : HasReadSeed(t) => seedRead[t] = seedStart[t]

\* C6: the two seed coordinates a depth pass reads were written by one writer.
C6_SeedReadFromOneWriter == \A t \in Threads : HasReadSeed(t) => rdW[t].x = rdW[t].y

\* every reading is below the minimum valid range (true of the empty scan)
AllBelowMinimum(ranges) == \A i \in 1..Len(ranges) : ranges[i] < minimum_range_value

\* C7: a lidar2d pass on a scan without a clusterable point does not raise.
C7_UnclusterableScanIsAMiss ==
    \A t \in Threads :
        (modality = "lidar2d" /\ pc[t] = "raised") => ~AllBelowMinimum(xys[t].ranges)

\* the clusters of the last pass: those it published, or those it had built
\* when it raised
PassClusters == IF pc[1] = "raised" THEN clusters[1] ELSE published

NoneBelowMinimum(ranges) == \A i \in 1..Len(ranges) : ranges[i] >= minimum_range_value

ConsecutiveWithinThreshold(ranges) ==
    \A i \in 1..(Len(ranges) - 1) :
        Dist2(XAt(ranges, i - 1), YAt(ranges, i - 1), XAt(ranges, i), YAt(ranges, i))
            <= Threshold2

OneClusterOfAll(cl, n) == Len(cl) = 1 /\ cl[1].idxs = [i \in 1..n |-> i - 1]

\* C8, as stated: every scan without a reading below the minimum and with
\* consecutive points within the threshold gives exactly one cluster, of all
\* indices in order.
C8_OneClusterAnyScan ==
    (msg # NoMsg /\ NoneBelowMinimum(msg.ranges) /\ ConsecutiveWithinThreshold(msg.ranges))
        => OneClusterOfAll(PassClusters, Len(msg.ranges))

\* C8, amended: the same for every scan with at least one reading.
C8_OneClusterNonEmptyScan ==
    (/\ msg # NoMsg
     /\ Len(msg.ranges) >= 1
     /\ NoneBelowMinimum(msg.ranges)
     /\ ConsecutiveWithinThreshold(msg.ranges))
        => OneClusterOfAll(PassClusters, Len(msg.ranges))

\* a pass on a scan of several readings, all valid and close, gave one cluster
C8_Witness ==
    /\ msg # NoMsg /\ Len(msg.ranges) >= 3
    /\ NoneBelowMinimum(msg.ranges) /\ ConsecutiveWithinThreshold(msg.ranges)
    /\ pc[1] = "idle" /\ Len(published) = 1 /\ Len(published[1].idxs) = Len(msg.ranges)

InsideBorder(v, dim) ==
    /\ 1000 * v > filter_border_edges * dim
    /\ 1000 * v < 1000 * dim - filter_border_edges * dim

\* C10: the seed takes the candidate only if the candidate is strictly inside
\* the image shrunk by the border margin on its four sides; any other candidate
\* resets the seed to the center.
C10_AcceptedOnlyInsideBorders ==
    \A t \in Threads :
        /\ pc[t] \in {"writex", "writey"}
              => (InsideBorder(new_seed_point[t].x, Width) /\ InsideBorder(new_seed_point[t].y, Height))
        /\ pc[t] = "center"
              => ~(InsideBorder(new_seed_point[t].x, Width) /\ InsideBorder(new_seed_point[t].y, Height))

-----------------------------------------------------------------------------
(* Properties of the depth seed *)

\* the state is the one a depth pass of thread 1 left: no mouse click since
AfterDepthPass == modality = "depth" /\ new_seed_point[1] # NoPoint /\ pending = NoPoint

\* C11: for every image of sides at least 2, a pass whose candidate seed is
\* (0,0), or has a coordinate <= 0 or >= the image dimension, leaves the seed at
\* (round(width/2), round(height/2)), and a pass whose candidate is that center
\* leaves the seed equal to the candidate; on a 100x100 image (0,0) gives
\* (50,50) and (50,50) stays (50,50).
C11_SeedResetRule ==
    AfterDepthPass =>
        LET c == new_seed_point[1]
            center == [x |-> RoundHalf(width), y |-> RoundHalf(height)]
        IN  /\ (c.x <= 0 \/ c.y <= 0 \/ c.x >= width \/ c.y >= height) => seed = center
            /\ c = center => seed = c
            /\ (width = 100 /\ height = 100 /\ c = [x |-> 0, y |-> 0])
                  => seed = [x |-> 50, y |-> 50]
            /\ (width = 100 /\ height = 100 /\ c = [x |-> 50, y |-> 50])
                  => seed = [x |-> 50, y |-> 50]

\* on the 100x100 image, a pass that started from another seed got the candidate
\* (0,0) and left the seed at (50,50)
C11_Witness ==
    /\ AfterDepthPass /\ width = 100 /\ height = 100
    /\ new_seed_point[1] = [x |-> 0, y |-> 0]
    /\ seedStart[1] # [x |-> 50, y |-> 50]
    /\ seed = [x |-> 50, y |-> 50]

\* C12: a depth pass that ends with detected = false leaves the seed at the value
\* it had before the pass.
C12_MissKeepsSeed == (AfterDepthPass /\ ~labels.detected) => seed = seedStart[1]

-----------------------------------------------------------------------------
(* Properties of construction and of the labels *)

\* C13: a labeler with label_data off stores each frame it receives and never
\* runs a labeling pass: the labels stay {detected: false, idxs: []}, it has no
\* marker and no seed, and it publishes nothing.
C13_DisabledStaysPassive ==
    (construction = "returned" /\ ~label_data) =>
        /\ labels = [detected |-> FALSE, idxs |-> <<>>]
        /\ marker = NoMarker
        /\ seed = NoSeed
        /\ published = <<>>
        /\ stamp_out = 0
        /\ \A t \in Threads :
              /\ pc[t] \in {"idle", "acquire", "store", "release"}
              /\ pc[t] = "release" => msg = arg[t]

\* a labeler with label_data off has received two frames and holds the second
C13_Witness ==
    /\ construction = "returned" /\ ~label_data /\ modality = "depth"
    /\ nframes = 2 /\ msg.id = 2
    /\ \A t \in Threads : pc[t] = "idle"

\* C14: no labeler exists for a modality outside rgb, lidar2d, lidar3d, depth,
\* whatever label_data is: the constructor does not return, and no frame is
\* received.
C14_UnknownModalityNotConstructed ==
    modality \notin {"rgb", "lidar2d", "lidar3d", "depth"}
        => (construction # "returned" /\ nframes = 0 /\ msg = NoMsg)

\* C15: for a pattern type that is neither chessboard nor charuco the constructor
\* exits, whatever the modality and label_data: no labeler is returned and no
\* frame is received.
C15_UnknownPatternIsFatal ==
    pattern_type \notin {"chessboard", "charuco"}
        => /\ construction = "SystemExit"
           /\ nframes = 0 /\ msg = NoMsg
           /\ \A t \in Threads : pc[t] = "idle"

\* a depth sensor with label_data on and a pattern type of neither kind
C15_Witness ==
    /\ pattern_type = "unknown" /\ modality = "depth" /\ label_data
    /\ construction = "SystemExit" /\ seed = NoSeed

\* C16: from the reset at the start of a pass until the modality's code writes
\* the labels, and in a pass that failed, detected is false and idxs is empty;
\* the labels a pass leaves were written by that pass.
C16_PassStartsFromResetLabels ==
    \A t \in Threads :
        /\ pc[t] \in {"cluster", "associate", "marker", "detected", "rgb", "lidar3d",
                      "readx", "ready", "grow", "raised"}
              => (labels.detected = FALSE /\ labels.idxs = <<>>)
        /\ (label_data /\ pc[t] \in {"idxs", "gate", "writex", "writey", "center", "release"})
              => (labelsOf.detected = msg.id /\ labelsOf.idxs = msg.id)

\* a lidar2d pass that failed after the pass before it had detected the pattern
C16_Witness ==
    /\ modality = "lidar2d" /\ published # <<>>
    /\ \E t \in Threads : pc[t] = "raised" /\ msg.id = 2
    /\ labels = [detected |-> FALSE, idxs |-> <<>>]

\* C17: in every state, also in the middle of a frame-arrival call, labels with
\* detected = true hold the index list computed from the frame stored in
\* self.msg.
C17_DetectedLabelsOfStoredFrame ==
    (label_data /\ labels.detected)
        => (labelsOf.detected = msg.id /\ labelsOf.idxs = msg.id /\ labels.idxs # <<>>)

-----------------------------------------------------------------------------
(* Properties of the lidar2d association and of what a lidar2d pass leaves *)

\* the squared distance from the seed the last association read to the point
\* of index idx of the stored scan
SeedDist2(idx) == Dist2(seed0.x, seed0.y, XAt(msg.ranges, idx), YAt(msg.ranges, idx))

\* the indices of the c-th cluster of cl
IdxSet(cl, c) == {cl[c].idxs[k] : k \in 1..Len(cl[c].idxs)}

\* the indices of all clusters of cl
ClusteredIdxs(cl) == UNION {IdxSet(cl, c) : c \in 1..Len(cl)}

\* the smallest distance from the seed to a clustered point
LeastSeedDist2(cl) ==
    CHOOSE d \in {SeedDist2(i) : i \in ClusteredIdxs(cl)} :
        \A j \in ClusteredIdxs(cl) : d <= SeedDist2(j)

\* the cluster the last pass selected, counted from 1
Selected == idx_closest_cluster[1] + 1

LoopRanges == xys[1].ranges
LoopClusters == clusters[1]

\* the clustering loop of thread 1 has run
LoopDone == xys[1] # NoMsg /\ pc[1] = "associate"

Valid(ranges, i) == ranges[i + 1] >= minimum_range_value

\* C21: whether index 0 is clustered depends only on its own range, never on
\* the range of the last reading: index 0 is in a cluster exactly when its own
\* range is valid, and it then starts the first cluster.
C21_FirstIndexOnOwnRange ==
    (LoopDone /\ Len(LoopRanges) >= 1) =>
        /\ (0 \in ClusteredIdxs(LoopClusters)) <=> Valid(LoopRanges, 0)
        /\ Valid(LoopRanges, 0) => LoopClusters[1].idxs[1] = 0

\* the indices of the clusters from c on, one cluster after the other
RECURSIVE ConcatIdxs(_, _)
ConcatIdxs(cl, c) == IF c > Len(cl) THEN <<>> ELSE cl[c].idxs \o ConcatIdxs(cl, c + 1)

StrictlyIncreasing(s) == \A i, j \in 1..Len(s) : i < j => s[i] < s[j]

\* C22: every index i >= 1 is in a cluster exactly when its range and the range
\* before it are both valid; the clusters are disjoint, the indices of each are
\* strictly increasing, and the clusters concatenated in creation order give
\* the clustered indices in increasing order.
C22_SkipRuleAndPartition ==
    LoopDone =>
        /\ \A i \in 1..(Len(LoopRanges) - 1) :
              (i \in ClusteredIdxs(LoopClusters))
                  <=> (Valid(LoopRanges, i) /\ Valid(LoopRanges, i - 1))
        /\ ClusteredIdxs(LoopClusters) \subseteq 0..(Len(LoopRanges) - 1)
        /\ \A c, d \in 1..Len(LoopClusters) :
              c # d => IdxSet(LoopClusters, c) \cap IdxSet(LoopClusters, d) = {}
        /\ \A c \in 1..Len(LoopClusters) :
              /\ LoopClusters[c].idxs # <<>>
              /\ StrictlyIncreasing(LoopClusters[c].idxs)
              /\ LoopClusters[c].cluster_count = c - 1
        /\ StrictlyIncreasing(ConcatIdxs(LoopClusters, 1))

\* a scan with a valid reading after an invalid one (skipped for the reading
\* before it), clustered indices after it, and several clusters
C22_Witness ==
    /\ LoopDone /\ Len(LoopClusters) >= 2
    /\ \E i \in 1..(Len(LoopRanges) - 1) :
          /\ Valid(LoopRanges, i) /\ ~Valid(LoopRanges, i - 1)
          /\ i \notin ClusteredIdxs(LoopClusters)
          /\ i + 1 \in ClusteredIdxs(LoopClusters)

\* the squared distance between the points of indices i and j of the scan
PointDist2(ranges, i, j) ==
    Dist2(XAt(ranges, i), YAt(ranges, i), XAt(ranges, j), YAt(ranges, j))

SameCluster(cl, i, j) == \E c \in 1..Len(cl) : i \in IdxSet(cl, c) /\ j \in IdxSet(cl, c)

\* C23: two points that follow each other among the clustered points are in
\* one cluster exactly when their distance is at most the threshold, with or
\* without skipped readings between them.
C23_SplitRule ==
    LoopDone =>
        LET s == ConcatIdxs(LoopClusters, 1)
        IN  \A k \in 1..(Len(s) - 1) :
                SameCluster(LoopClusters, s[k], s[k + 1])
                    <=> PointDist2(LoopRanges, s[k], s[k + 1]) <= Threshold2

\* two clustered points with skipped readings between them, at exactly the
\* threshold from each other, in one cluster
C23_Witness ==
    /\ LoopDone
    /\ \E c \in 1..Len(LoopClusters) : \E k \in 1..(Len(LoopClusters[c].idxs) - 1) :
          LET i == LoopClusters[c].idxs[k]
              j == LoopClusters[c].idxs[k + 1]
          IN  j > i + 1 /\ PointDist2(LoopRanges, i, j) = Threshold2

\* a pass of the lidar2d labeler is in flight, or its lock was left held
LockTaken == lock # 0

\* C24: while a pass is in flight or the lock is left held on the lidar2d
\* labeler, a frame arrival on the depth labeler that finds its own lock free
\* goes on, and no step of a pass of the lidar2d labeler changes the frame, the
\* seed or the labels of the depth labeler.
C24_LabelersIndependent ==
    /\ []((LockTaken /\ other.pc = "acquire" /\ other.lock = 0) => ENABLED OtherAcquire)
    /\ [][(\E t \in Threads : InPass(t) /\ pc'[t] # pc[t])
             => (other.msg' = other.msg /\ other.seed' = other.seed
                 /\ other.labels' = other.labels /\ other.lock' = other.lock)]_vars

\* the lidar2d labeler raised on its first frame and left its lock held; the
\* depth labeler holds its own lock and has labeled its last frame
C24_Witness ==
    /\ \E t \in Threads : pc[t] = "raised" /\ lock = t
    /\ other.nframes = MaxFrames /\ other.pc = "release"
    /\ other.msg.id = MaxFrames /\ other.labels.detected
    /\ nframes = 1

C26_LabelsAreDetectorResult ==
    \A t \in Threads :
        (modality = "rgb" /\ label_data) =>
            /\ pc[t] # "raised"
            /\ pc[t] = "release" =>
                  LET res == result[t]
                  IN  /\ labels.detected = res.detected
                      /\ res.detected =>
                            /\ Len(labels.idxs) = Len(res.keypoints)
                            /\ \A k \in 1..Len(res.keypoints) :
                                  /\ labels.idxs[k].x = res.keypoints[k].x
                                  /\ labels.idxs[k].y = res.keypoints[k].y
                                  /\ ("ids" \in DOMAIN res) =>
                                        /\ "id" \in DOMAIN labels.idxs[k]
                                        /\ labels.idxs[k].id = res.ids[k]
                      /\ ~res.detected => labels.idxs = <<>>

\* an rgb pass on a charuco board detected several corners with their ids, after
\* a pass whose frame was stored before it
C26_Witness ==
    \E t \in Threads :
        /\ modality = "rgb" /\ label_data /\ pc[t] = "release" /\ msg.id = 2
        /\ result[t].detected /\ "ids" \in DOMAIN result[t]
        /\ Len(labels.idxs) >= 2 /\ labels.idxs[1].id # labels.idxs[2].id

\* C27: an rgb or depth pass that is over has published exactly one annotated
\* image, detected or not, and its stamp and frame_id are those of the frame the
\* call was made with, which is the stored frame.
C27_OneImageOfPassFrame ==
    \A t \in Threads :
        (modality \in {"rgb", "depth"} /\ label_data) =>
            /\ pc[t] = "release" => (images[t] = <<arg[t].id>> /\ arg[t] = msg)
            /\ Len(images[t]) <= 1

\* a pass that detected nothing has published its image while a frame delivered
\* after its own waits for the lock
C27_Witness ==
    \E t, u \in Threads :
        /\ modality \in {"rgb", "depth"} /\ label_data
        /\ pc[t] = "release" /\ ~labels.detected /\ images[t] = <<1>>
        /\ pc[u] = "acquire" /\ arg[u].id = 2

\* C28: whenever no frame-arrival call is in progress, the stored frame is the
\* frame delivered last.
C28_StoredFrameIsLatest == (Quiescent /\ nframes > 0) => msg.id = nframes

C30_InitialSeedIsResetValue ==
    LET center == [x |-> RoundHalf(width), y |-> RoundHalf(height)]
    IN  /\ (seedW = [x |-> 0, y |-> 0]) => seed = center
        /\ (AfterDepthPass /\ ~SeedAccepted(new_seed_point[1])) => seed = center

\* on an image of odd width, a pass that started from another seed had its
\* candidate refused and left the seed where the constructor had set it
C30_Witness ==
    /\ AfterDepthPass /\ ~SeedAccepted(new_seed_point[1])
    /\ width = 3 /\ height # width
    /\ seedStart[1] # [x |-> RoundHalf(width), y |-> RoundHalf(height)]
    /\ seed = [x |-> RoundHalf(width), y |-> RoundHalf(height)]
    /\ seed # [x |-> width \div 2, y |-> height \div 2]

\* a pass raised and its call ended without releasing the lock
LockLeftHeld == \E u \in Threads : pc[u] = "raised"

\* the calls that have the lock or have returned after having had it
CallsPastLock == nframes - Cardinality({t \in Threads : pc[t] = "acquire"})

C32_PassStartsInsideImage ==
    (modality = "depth" /\ new_seed_point[1] # NoPoint) =>
        /\ 0 <= seedStart[1].x /\ seedStart[1].x < width
        /\ 0 <= seedStart[1].y /\ seedStart[1].y < height

\* the clustering loop keeps at least one point of the scan
Clusterable(ranges) == \E i \in 0..(Len(ranges) - 1) : ~SkipPoint(ranges, i)

C35_ClickSetsSeed ==
    [][(modality = "depth" /\ pending' # NoPoint) =>
          /\ \E p \in ClickPixels : /\ seed'.x = 2 * p.x /\ seed'.y = 2 * p.y
                                    /\ pending' = [x |-> 2 * p.x, y |-> 2 * p.y]
          /\ UNCHANGED <<msg, labels, marker, pubVars, lock, pc>>]_vars

C35_Witness ==
    /\ modality = "depth" /\ msg # NoMsg /\ labels.detected
    /\ pending # NoPoint /\ seed.x = pending.x /\ seed.y = pending.y
    /\ seed.x >= width

\* the positions of a call inside each of the four branches of labelData
BranchPositions(m) ==
    CASE m = "lidar2d" -> {"cluster", "associate", "marker", "detected", "idxs", "raised"}
      [] m = "rgb" -> {"rgb"}
      [] m = "lidar3d" -> {"lidar3d"}
      [] m = "depth" -> {"readx", "ready", "grow", "gate", "writex", "writey", "center"}
      [] OTHER -> {}

OutsideBranches == {"idle", "acquire", "store", "reset", "release"}

\* C36: the else branch of labelData (Unknown modality) is never taken: a call
\* is inside labelData only with label_data on and one of the four modalities,
\* and past the dispatch it is in the branch of that modality.
C36_UnknownModalityUnreachable ==
    \A t \in Threads :
        /\ pc[t] = "reset" => label_data /\ modality \in Modalities
        /\ pc[t] \notin OutsideBranches =>
              /\ label_data /\ modality \in Modalities
              /\ pc[t] \in BranchPositions(modality)
        /\ pc[t] # "idle" => construction = "returned"

C36_Witness ==
    /\ construction = "returned" /\ modality \notin Modalities /\ ~label_data
    /\ msg # NoMsg /\ nframes = MaxFrames
    /\ \E t \in Threads : pc[t] = "release"

HasMarker == construction = "returned" /\ label_data /\ modality \in {"lidar2d", "lidar3d", "depth"}

C38_FirstMsgNeverRecorded == received_first_msg = FALSE

C38_Witness ==
    /\ ~received_first_msg
    /\ construction = "returned" /\ label_data /\ modality = "rgb"
    /\ msg.id = MaxFrames /\ calls.labeled = MaxFrames
    /\ \E t \in Threads : pc[t] = "release" /\ labels.detected

====
